---- MODULE Spec2Model ----
(***************************************************************************)
(* Cloud-recording bookkeeping of agoraplay: the HTTP handlers of          *)
(* core/api_views.py (get_rtc_token, start_recording, stop_recording,      *)
(* query_recording, list_recordings) over the Recording table of           *)
(* core/models.py, and the playback resolution of core/agora_utils.py      *)
(* (get_recording_playback_url), with the Agora REST service and the S3    *)
(* bucket as a nondeterministic environment.  Requests are served in       *)
(* parallel by two workers; a handler is split only where it performs a    *)
(* second database operation.                                              *)
(*                                                                         *)
(*   Spec          every operation, on a bucket that holds no key          *)
(*   ResolveSpec   the key selection of resolve over every listing         *)
(*   PlaybackSpec  start, stop and resolve on a bucket that holds keys     *)
(*   UpstreamSpec  start, stop and query with each upstream call and its   *)
(*                 answer as separate steps, under fairness of the workers *)
(***************************************************************************)
EXTENDS Integers, Sequences, FiniteSets, TLC

\* ------------------------------------------------------------------ bounds
MaxRecordings == 2
MaxClock == 2
MaxCalls == 3
MaxKeys == 3

\* ------------------------------------------------------- values and inputs
\* Python None / a key missing from a JSON body.
None == "None"
\* stopped_at = NULL (models.py: null=True); real timestamps start at 1.
NullTime == 0

\* The workers serving requests in parallel.
Procs == {"w1", "w2"}

\* Python truthiness of a str-or-None value: `not x`.
Falsy(x) == x = None \/ x = ""

\* Channel names are sequences of characters, so that emptiness and
\* case-insensitive containment are computed, not assumed.
Channels == {<<>>, <<"A", "b">>}
Uids == {"", "999999", "abc"}
Modes == {"mix"}
ResourceIds == {"r1", "r2"}
SessionIds == {"s1", "s2"}
\* settings.AWS_STORAGE_BUCKET_NAME
Bucket == "bucket"

\* int(uid): raises ValueError unless uid is an integer literal.
IsIntString(uid) == uid \in {"999999"}

\* The TextField s3_file_list: blank, or the JSON text of a list.
BlankText == [isJson |-> FALSE, value |-> <<>>]
json_dumps(l) == [isJson |-> TRUE, value |-> l]
\* The file-key list a stored s3_file_list stands for.
StoredFileKeys(text) == IF text.isJson THEN text.value ELSE <<>>

\* An object key is a sequence of tokens: single characters and, where the
\* key has one, its extension as the last token.  No token is a prefix of
\* another, so length, suffix test and order are those of the string.
Tokens == <<".m3u8", ".mp4", ".ts", "/", "a", "b">>

\* len(token).
TokenLen(t) ==
    IF t = ".m3u8" THEN 5 ELSE IF t = ".mp4" THEN 4 ELSE IF t = ".ts" THEN 3 ELSE 1

\* The place of a token in code-point order ('.' < '/' < 'a'; '3' < 'p' < 't').
TokenRank(t) == CHOOSE r \in DOMAIN Tokens : Tokens[r] = t

\* The fileList of a stop reply: missing or empty, or the keys uploaded.
FileLists == {<<>>, << <<"a", ".mp4">>, <<"a", ".m3u8">> >>}

\* ------------------------------------------------- the Agora REST replies
\* acquire: non-200 (or any raised error), or 200 with a body whose
\* resourceId may be missing or empty.
AcquireReplies ==
    {[ok |-> FALSE, resourceId |-> None]} \cup
    {[ok |-> TRUE, resourceId |-> r] : r \in ResourceIds \cup {None, ""}}

\* start: non-200, or 200 with a body whose sid may be missing or empty.
StartReplies ==
    {[ok |-> FALSE, sid |-> None]} \cup
    {[ok |-> TRUE, sid |-> s] : s \in SessionIds \cup {None, ""}}

\* stop: non-200, or 200 with a body in which serverResponse is missing,
\* null, or an object whose fileList is missing/empty (<<>>) or a list.
StopReplies ==
    {[ok |-> FALSE, serverResponse |-> "absent", fileList |-> <<>>]} \cup
    {[ok |-> TRUE, serverResponse |-> sr, fileList |-> <<>>] : sr \in {"absent", "null"}} \cup
    {[ok |-> TRUE, serverResponse |-> "object", fileList |-> fl] : fl \in FileLists}

VARIABLES
    recordings,   \* the Recording table: a sequence of rows, row i has id i
    clock,        \* the latest reading of timezone.now()
    credentials,  \* settings.AGORA_APP_ID and AGORA_APP_CERTIFICATE are set
    pc,           \* per worker: where its handler stands
    loc,          \* per worker: the locals of the handler it is running
    last,         \* the most recently completed request and its response
    ncalls,       \* requests accepted so far
    bucket        \* per session id: what S3 answers to a listing with that prefix

vars == <<recordings, clock, credentials, pc, loc, last, ncalls, bucket>>

\* ------------------------------------------------------------- the table
\* Recording(...) with the model's field defaults (models.py 14-39).
NewRecording_Mut(id, resource_id, sid, channel, uid, mode, now) ==
    [id |-> id, resource_id |-> sid, sid |-> resource_id,
     channel_name |-> channel, recording_uid |-> uid,
     started_at |-> now, stopped_at |-> NullTime,
     status |-> "recording", s3_bucket |-> Bucket,
     s3_file_list |-> BlankText, mode |-> mode]

NewRecording(id, resource_id, sid, channel, uid, mode, now) ==
    [id |-> id, resource_id |-> resource_id, sid |-> sid,
     channel_name |-> channel, recording_uid |-> uid,
     started_at |-> now, stopped_at |-> NullTime,
     status |-> "recording", s3_bucket |-> Bucket,
     s3_file_list |-> BlankText, mode |-> mode]

Rows(recs) == 1..Len(recs)

\* The INSERT fails (IntegrityError) on a NULL sid or resource_id and on a
\* value already present in a unique column.
IntegrityError_Mut(recs, resource_id, sid) ==
    resource_id = None \/ sid = None

IntegrityError(recs, resource_id, sid) ==
    \/ resource_id = None
    \/ sid = None
    \/ \E i \in Rows(recs) : recs[i].resource_id = resource_id
    \/ \E i \in Rows(recs) : recs[i].sid = sid

\* Recording.objects.get(resource_id=..., sid=...): the matching row's index,
\* or 0 for DoesNotExist (both columns are unique: at most one row matches).
Lookup(recs, resource_id, sid) ==
    IF \E i \in Rows(recs) : recs[i].resource_id = resource_id /\ recs[i].sid = sid
    THEN CHOOSE i \in Rows(recs) : recs[i].resource_id = resource_id /\ recs[i].sid = sid
    ELSE 0

\* ------------------------------------------------------ start_recording
\* api_views.py 138: `if not resource_id`.
NoResourceId_Mut(resource_id) == resource_id = None

NoResourceId(resource_id) == Falsy(resource_id)

\* generate_rtc_token(channel, int(uid)): int() raises ValueError on a uid
\* that is no integer literal, the token builder raises ValueError when the
\* app credentials are not configured.
TokenRaises(uid, creds) == ~IsIntString(uid) \/ ~creds

\* The place at which start_recording returns, for a request, the two
\* upstream replies, the table and the settings.  The checks run in the
\* handler's order: validation, acquire, resource id, token, start, INSERT.
StartStep(channel, uid, acq, st, recs, creds) ==
    IF channel = <<>> THEN "no_channel"
    ELSE IF Falsy(uid) THEN "no_uid"
    ELSE IF ~acq.ok THEN "acquire_failed"
    ELSE IF NoResourceId(acq.resourceId) THEN "no_resource_id"
    ELSE IF TokenRaises(uid, creds) THEN "token_failed"
    ELSE IF ~st.ok THEN "start_failed"
    ELSE IF IntegrityError(recs, acq.resourceId, st.sid) THEN "create_failed"
    ELSE "created"

\* The HTTP status of the response returned at each place.
StartStatus(step) ==
    IF step \in {"no_channel", "no_uid"} THEN 400
    ELSE IF step = "created" THEN 200
    ELSE 500

\* Which upstream calls the handler made before returning at `step`.
AcquireCalled(step) == step \notin {"no_channel", "no_uid"}
TokenCalled(step) == step \in {"token_failed", "start_failed", "create_failed", "created"}
StartCalled(step) == step \in {"start_failed", "create_failed", "created"}

\* ------------------------------------------------------- stop_recording
\* api_views.py 220: all([resource_id, sid, channel, uid]).
StopRequestValid(resource_id, sid, channel, uid) ==
    ~Falsy(resource_id) /\ ~Falsy(sid) /\ channel # <<>> /\ ~Falsy(uid)

\* api_views.py 234-242: the success path's changes to the fetched row.
\* `if file_list:` skips a missing fileList and an empty one alike.
MarkStopped_Mut(row, now, reply) ==
    [row EXCEPT !.started_at = now,
                !.stopped_at = now,
                !.status = "stopped",
                !.s3_file_list = IF reply.fileList # <<>>
                                 THEN json_dumps(reply.fileList) ELSE @]

MarkStopped(row, now, reply) ==
    [row EXCEPT !.stopped_at = now,
                !.status = "stopped",
                !.s3_file_list = IF reply.fileList # <<>>
                                 THEN json_dumps(reply.fileList) ELSE @]

\* api_views.py 259-260: the failure path's changes to the fetched row.
MarkFailed_Mut(row, now) ==
    [row EXCEPT !.status = "failed"]

MarkFailed_KeepStatus(row, now) ==
    [row EXCEPT !.stopped_at = now]

MarkFailed(row, now) ==
    [row EXCEPT !.status = "failed", !.stopped_at = now]

\* api_views.py 238: stop_response.get('serverResponse', {}) is None when the
\* body carries "serverResponse": null, and None.get raises AttributeError.
ServerResponseRaises(reply) == reply.serverResponse = "null"

\* api_views.py 246-253: DoesNotExist on the success path is passed over and
\* the handler answers 200.
StatusWhenUnknownAndStopped_Mut(reply) == 404

StatusWhenUnknownAndStopped(reply) == 200

\* recording.save(): UPDATE of every column of the row with obj's id.
Save(recs, obj) == [recs EXCEPT ![obj.id] = obj]

\* The status column of the row a stop request names, "absent" if none.
StatusOf(recs, resource_id, sid) ==
    IF Lookup(recs, resource_id, sid) = 0 THEN "absent"
    ELSE recs[Lookup(recs, resource_id, sid)].status

\* --------------------------------------------------------- get_rtc_token
\* api_views.py 51-83: channel required (400), uid parsed with int() where
\* given (400), then the token is built (500 without credentials).
TokenStep(channel, uid, creds) ==
    IF channel = <<>> THEN "no_channel"
    ELSE IF uid # None /\ ~IsIntString(uid) THEN "bad_uid"
    ELSE IF ~creds THEN "token_failed"
    ELSE "issued"

TokenStatus(step) ==
    IF step \in {"no_channel", "bad_uid"} THEN 400
    ELSE IF step = "issued" THEN 200
    ELSE 500

\* ------------------------------------------------------ query_recording
\* api_views.py 294-312: validation, then the upstream query; no table access.
QueryStep(resource_id, sid, ok) ==
    IF Falsy(resource_id) \/ Falsy(sid) THEN "invalid"
    ELSE IF ok THEN "active" ELSE "query_failed"

QueryStatus(step) ==
    IF step = "invalid" THEN 400 ELSE IF step = "active" THEN 200 ELSE 500

\* ------------------------------------------------------ list_recordings
Lower(c) == IF c = "A" THEN "a" ELSE IF c = "B" THEN "b" ELSE c

\* channel_name__icontains: case-insensitive substring match.
IContains(name, part) ==
    \E off \in 0..(Len(name) - Len(part)) :
        \A k \in 1..Len(part) : Lower(name[off + k]) = Lower(part[k])

\* The rows list_recordings selects: all, or those whose channel matches a
\* non-empty filter (`if channel_filter:`).
Selected(recs, channel_filter) ==
    {i \in Rows(recs) : channel_filter = <<>> \/ IContains(recs[i].channel_name, channel_filter)}

\* Meta.ordering = ['-started_at']: every order of the selected rows the
\* database may return; rows with equal started_at come in either order.
Orderings(recs, S) ==
    {f \in [1..Cardinality(S) -> S] :
        /\ \A i, j \in 1..Cardinality(S) : i # j => f[i] # f[j]
        /\ \A i, j \in 1..Cardinality(S) : i < j => recs[f[i]].started_at >= recs[f[j]].started_at}

\* recordings[:limit] for limit >= 0.
Take_Mut(f, limit) == [k \in 1..(IF limit + 1 < Len(f) THEN limit + 1 ELSE Len(f)) |-> f[k]]

Take(f, limit) == [k \in 1..(IF limit < Len(f) THEN limit ELSE Len(f)) |-> f[k]]

\* The limits a request may carry; 50 is the default.
DefaultLimit == 50
Limits == {-1, 0, 1, DefaultLimit}
ChannelFilters == {<<>>, <<"a", "B">>, <<"b", "a">>}

\* ------------------------------------------- get_recording_playback_url
\* len(key).
RECURSIVE StrLen(_)
StrLen(key) == IF key = <<>> THEN 0 ELSE TokenLen(Head(key)) + StrLen(Tail(key))

\* key.endswith(suffix).
EndsWith(key, suffix) == Len(key) >= 1 /\ key[Len(key)] = suffix

\* What s3_client.list_objects_v2(Bucket, Prefix=sid) gives back: a
\* ClientError, or a response whose Contents (missing when nothing matches)
\* holds the keys in the order the store lists them.
S3Error == [ok |-> FALSE, contents |-> <<>>]
S3Listing(keys) == [ok |-> TRUE, contents |-> keys]

\* list_recording_files: the listed keys split by suffix, each list in
\* listing order; all lists are empty on a ClientError.
list_recording_files_Mut(listing) ==
    LET all_files == IF listing.ok THEN listing.contents ELSE <<>>
    IN  [mp4_files |-> SelectSeq(all_files, LAMBDA f : EndsWith(f, ".mp4")),
         m3u8_files |-> SelectSeq(all_files, LAMBDA f : EndsWith(f, ".ts")),
         ts_files |-> SelectSeq(all_files, LAMBDA f : EndsWith(f, ".ts")),
         all_files |-> all_files]

list_recording_files(listing) ==
    LET all_files == IF listing.ok THEN listing.contents ELSE <<>>
    IN  [mp4_files |-> SelectSeq(all_files, LAMBDA f : EndsWith(f, ".mp4")),
         m3u8_files |-> SelectSeq(all_files, LAMBDA f : EndsWith(f, ".m3u8")),
         ts_files |-> SelectSeq(all_files, LAMBDA f : EndsWith(f, ".ts")),
         all_files |-> all_files]

\* min(files, key=len): the first key of minimum length.
MinByLen_Mut(files) == files[1]

MinByLen(files) ==
    files[CHOOSE i \in DOMAIN files :
            /\ \A j \in DOMAIN files : StrLen(files[j]) >= StrLen(files[i])
            /\ \A j \in 1..(i - 1) : StrLen(files[j]) > StrLen(files[i])]

\* generate_presigned_url(key, expiration): the URL, or None (url.signed
\* false) when signing raised ClientError.
PlaybackExpiration == 7200
generate_presigned_url(file_key, expiration, sign_ok) ==
    IF sign_ok
    THEN [signed |-> TRUE, bucket |-> Bucket, key |-> file_key, expires_in |-> expiration]
    ELSE [signed |-> FALSE, bucket |-> None, key |-> <<>>, expires_in |-> 0]

\* The return value None of get_recording_playback_url.
NoPlayback == [found |-> FALSE]

\* Lines 457-459: the mp4 branch takes the first listed mp4 key.
FirstMp4_Mut(files) == files.mp4_files[Len(files.mp4_files)]

FirstMp4(files) == files.mp4_files[1]

\* Lines 454-480: mp4 first, else the shortest m3u8, else None.
get_recording_playback_url(listing, sign_ok) ==
    LET files == list_recording_files(listing)
    IN  IF files.mp4_files # <<>>
        THEN [found |-> TRUE,
              url |-> generate_presigned_url(FirstMp4(files), PlaybackExpiration, sign_ok),
              type |-> "mp4", mime_type |-> "video/mp4"]
        ELSE IF files.m3u8_files # <<>>
        THEN [found |-> TRUE,
              url |-> generate_presigned_url(MinByLen(files.m3u8_files),
                                             PlaybackExpiration, sign_ok),
              type |-> "hls", mime_type |-> "application/x-mpegURL"]
        ELSE NoPlayback

IdleLoc == [op |-> "none"]

NoRequest == [op |-> "none"]

\* An empty table, idle workers, no request served yet.
InitService ==
    /\ recordings = <<>>
    /\ clock = 1
    /\ credentials \in BOOLEAN
    /\ pc = [p \in Procs |-> "idle"]
    /\ loc = [p \in Procs |-> IdleLoc]
    /\ last = NoRequest
    /\ ncalls = 0

\* Nothing has been uploaded: the bucket lists no key under any prefix.
Init == InitService /\ bucket = [sid \in SessionIds |-> S3Listing(<<>>)]

\* timezone.now(): the clock is read where the code reads it; since the
\* previous reading time has passed or not.
Now == {t \in {clock, clock + 1} : t <= MaxClock}

\* The record of a completed start request.
StartDone(channel, uid, acq, st, step) ==
    [op |-> "start", step |-> step,
     channel |-> channel, uid |-> uid,
     status |-> StartStatus(step),
     acquire |-> IF ~AcquireCalled(step) THEN "not_called"
                 ELSE IF acq.ok THEN "ok" ELSE "failed",
     token |-> IF ~TokenCalled(step) THEN "not_called"
               ELSE IF TokenRaises(uid, credentials) THEN "failed" ELSE "ok",
     start |-> IF ~StartCalled(step) THEN "not_called"
               ELSE IF st.ok THEN "ok" ELSE "failed",
     resource_id |-> acq.resourceId, sid |-> st.sid,
     rows_before |-> recordings]

\* POST recording/start/: the whole handler.  Its only database operation
\* is the INSERT at the end, so the upstream round trips before it are
\* folded into the same step.
StartRecording(p) ==
    /\ pc[p] = "idle"
    /\ ncalls < MaxCalls
    /\ Len(recordings) < MaxRecordings
    /\ \E channel \in Channels, uid \in Uids, mode \in Modes,
          acq \in AcquireReplies, st \in StartReplies, now \in Now :
        LET step == StartStep(channel, uid, acq, st, recordings, credentials)
            id == Len(recordings) + 1
        IN  /\ \* replies of calls the handler never made are not inputs
               (~AcquireCalled(step) => acq = [ok |-> FALSE, resourceId |-> None])
            /\ (~StartCalled(step) => st = [ok |-> FALSE, sid |-> None])
            /\ (step # "created" => now = clock)
            /\ clock' = now
            /\ recordings' =
                  IF step = "created"
                  THEN Append(recordings,
                              NewRecording(id, acq.resourceId, st.sid, channel, uid, mode, now))
                  ELSE recordings
            /\ last' = StartDone(channel, uid, acq, st, step)
    /\ ncalls' = ncalls + 1
    /\ UNCHANGED <<credentials, bucket, pc, loc>>

\* The record of a completed stop request.
StopDone(p, step, status, rows) ==
    [op |-> "stop", step |-> step, status |-> status,
     resource_id |-> loc[p].resource_id, sid |-> loc[p].sid,
     called |-> TRUE, reply |-> loc[p].reply, at_call |-> loc[p].at_call,
     rows_before |-> rows]

\* POST recording/stop/, lines 214-229: validation, then the upstream stop
\* call, made before the table is looked at.  The request's mode only goes
\* into the upstream URL and is left out.
StopCall(p) ==
    /\ pc[p] = "idle"
    /\ ncalls < MaxCalls
    /\ ncalls' = ncalls + 1
    /\ \E resource_id \in ResourceIds \cup {""}, sid \in SessionIds \cup {""},
          channel \in Channels, uid \in {"", "999999"}, reply \in StopReplies :
        IF StopRequestValid(resource_id, sid, channel, uid)
        THEN /\ loc' = [loc EXCEPT ![p] =
                          [op |-> "stop", resource_id |-> resource_id, sid |-> sid,
                           called |-> TRUE, reply |-> reply,
                           at_call |-> StatusOf(recordings, resource_id, sid)]]
             /\ pc' = [pc EXCEPT ![p] = IF reply.ok THEN "stop_get" ELSE "fail_get"]
             /\ UNCHANGED last
        ELSE /\ reply = [ok |-> FALSE, serverResponse |-> "absent", fileList |-> <<>>]
             /\ last' = [op |-> "stop", step |-> "invalid", status |-> 400,
                         resource_id |-> None, sid |-> None,
                         called |-> FALSE, reply |-> reply, at_call |-> "absent",
                         rows_before |-> recordings]
             /\ UNCHANGED <<pc, loc>>
    /\ UNCHANGED <<recordings, clock, credentials, bucket>>

\* Lines 232-242 and 246-253: the success path fetches the row and changes
\* the fetched copy; an unknown row ends the request with a 200.
StopGet(p) ==
    /\ pc[p] = "stop_get"
    /\ LET i == Lookup(recordings, loc[p].resource_id, loc[p].sid)
       IN  IF i = 0
           THEN /\ last' = StopDone(p, "unknown_stopped",
                                    StatusWhenUnknownAndStopped(loc[p].reply), recordings)
                /\ pc' = [pc EXCEPT ![p] = "idle"]
                /\ loc' = [loc EXCEPT ![p] = IdleLoc]
                /\ UNCHANGED clock
           ELSE \E now \in Now :
                /\ clock' = now
                /\ UNCHANGED last
                /\ IF ServerResponseRaises(loc[p].reply)
                   THEN /\ pc' = [pc EXCEPT ![p] = "fail_get"]
                        /\ UNCHANGED loc
                   ELSE /\ pc' = [pc EXCEPT ![p] = "stop_save"]
                        /\ loc' = [loc EXCEPT ![p] =
                              [op |-> "stop", resource_id |-> loc[p].resource_id,
                               sid |-> loc[p].sid, called |-> TRUE, reply |-> loc[p].reply,
                               at_call |-> loc[p].at_call,
                               obj |-> MarkStopped(recordings[i], now, loc[p].reply)]]
    /\ UNCHANGED <<recordings, credentials, bucket, ncalls>>

\* Lines 244 and 250-253: the changed copy is written back, the handler
\* answers 200.
StopSave(p) ==
    /\ pc[p] = "stop_save"
    /\ recordings' = Save(recordings, loc[p].obj)
    /\ last' = StopDone(p, "stopped", 200, recordings)
    /\ pc' = [pc EXCEPT ![p] = "idle"]
    /\ loc' = [loc EXCEPT ![p] = IdleLoc]
    /\ UNCHANGED <<clock, credentials, bucket, ncalls>>

\* Lines 255-260 and 262-268: any exception of the success path lands here;
\* the row is fetched again and marked failed, an unknown row is passed over.
FailGet(p) ==
    /\ pc[p] = "fail_get"
    /\ LET i == Lookup(recordings, loc[p].resource_id, loc[p].sid)
       IN  IF i = 0
           THEN /\ last' = StopDone(p, "unknown_failed", 500, recordings)
                /\ pc' = [pc EXCEPT ![p] = "idle"]
                /\ loc' = [loc EXCEPT ![p] = IdleLoc]
                /\ UNCHANGED clock
           ELSE \E now \in Now :
                /\ clock' = now
                /\ pc' = [pc EXCEPT ![p] = "fail_save"]
                /\ loc' = [loc EXCEPT ![p] =
                             [op |-> "stop", resource_id |-> loc[p].resource_id,
                              sid |-> loc[p].sid, called |-> TRUE, reply |-> loc[p].reply,
                              at_call |-> loc[p].at_call,
                              obj |-> MarkFailed(recordings[i], now)]]
                /\ UNCHANGED last
    /\ UNCHANGED <<recordings, credentials, bucket, ncalls>>

\* Lines 261 and 265-268: the failed copy is written back, the handler
\* answers 500.
FailSave(p) ==
    /\ pc[p] = "fail_save"
    /\ recordings' = Save(recordings, loc[p].obj)
    /\ last' = StopDone(p, "failed", 500, recordings)
    /\ pc' = [pc EXCEPT ![p] = "idle"]
    /\ loc' = [loc EXCEPT ![p] = IdleLoc]
    /\ UNCHANGED <<clock, credentials, bucket, ncalls>>

\* GET recording/query/: the whole handler.
QueryRecording(p) ==
    /\ pc[p] = "idle"
    /\ ncalls < MaxCalls
    /\ ncalls' = ncalls + 1
    /\ \E resource_id \in {"", "r1"}, sid \in {"", "s1"}, ok \in BOOLEAN :
        LET step == QueryStep(resource_id, sid, ok)
        IN  /\ (step = "invalid" => ~ok)
            /\ last' = [op |-> "query", step |-> step, status |-> QueryStatus(step),
                        rows_before |-> recordings]
    /\ UNCHANGED <<recordings, clock, credentials, bucket, pc, loc>>

\* list_recordings, lines 346-386: the whole handler.  A negative limit
\* makes the slice raise inside the try (500); the rows are returned as the
\* database orders them.
ListRecordings(p) ==
    /\ pc[p] = "idle"
    /\ ncalls < MaxCalls
    /\ ncalls' = ncalls + 1
    /\ \E channel_filter \in ChannelFilters, limit \in Limits :
        IF limit < 0
        THEN last' = [op |-> "list", step |-> "slice_failed", status |-> 500,
                      channel_filter |-> channel_filter, limit |-> limit,
                      data |-> <<>>, rows_before |-> recordings]
        ELSE \E f \in Orderings(recordings, Selected(recordings, channel_filter)) :
             last' = [op |-> "list", step |-> "listed", status |-> 200,
                      channel_filter |-> channel_filter, limit |-> limit,
                      data |-> Take(f, limit), rows_before |-> recordings]
    /\ UNCHANGED <<recordings, clock, credentials, bucket, pc, loc>>

\* get_recording_playback_url(sid), lines 454-480: one listing of the
\* bucket and at most one signing; the Recording table is not read.
GetRecordingPlaybackUrl_Mut(p) ==
    /\ pc[p] = "idle"
    /\ ncalls < MaxCalls
    /\ ncalls' = ncalls + 1
    /\ \E sid \in SessionIds, sign_ok \in BOOLEAN :
        LET stopped == \E i \in Rows(recordings) :
                          recordings[i].sid = sid /\ recordings[i].status = "stopped"
            result == IF stopped THEN get_recording_playback_url(bucket[sid], sign_ok)
                      ELSE NoPlayback
        IN  /\ (~result.found => sign_ok)
            /\ last' = [op |-> "resolve", sid |-> sid, listing |-> bucket[sid],
                        sign_ok |-> sign_ok, result |-> result,
                        rows_before |-> recordings]
    /\ UNCHANGED <<recordings, clock, credentials, bucket, pc, loc>>

GetRecordingPlaybackUrl(p) ==
    /\ pc[p] = "idle"
    /\ ncalls < MaxCalls
    /\ ncalls' = ncalls + 1
    /\ \E sid \in SessionIds, sign_ok \in BOOLEAN :
        LET result == get_recording_playback_url(bucket[sid], sign_ok)
        IN  /\ \* the outcome of a signing never asked for is not an input
               (~result.found => sign_ok)
            /\ last' = [op |-> "resolve", sid |-> sid, listing |-> bucket[sid],
                        sign_ok |-> sign_ok, result |-> result,
                        rows_before |-> recordings]
    /\ UNCHANGED <<recordings, clock, credentials, bucket, pc, loc>>

\* GET token/: the whole handler; it has no table access.
GetRtcToken(p) ==
    /\ pc[p] = "idle"
    /\ ncalls < MaxCalls
    /\ ncalls' = ncalls + 1
    /\ \E channel \in Channels, uid \in {None, "999999", "abc"} :
        LET step == TokenStep(channel, uid, credentials)
        IN  last' = [op |-> "token", step |-> step, status |-> TokenStatus(step),
                     rows_before |-> recordings]
    /\ UNCHANGED <<recordings, clock, credentials, bucket, pc, loc>>

Next ==
    \/ \E p \in Procs : StartRecording(p)
    \/ \E p \in Procs : StopCall(p)
    \/ \E p \in Procs : StopGet(p)
    \/ \E p \in Procs : StopSave(p)
    \/ \E p \in Procs : FailGet(p)
    \/ \E p \in Procs : FailSave(p)
    \/ \E p \in Procs : QueryRecording(p)
    \/ \E p \in Procs : ListRecordings(p)
    \/ \E p \in Procs : GetRtcToken(p)
    \/ \E p \in Procs : GetRecordingPlaybackUrl(p)

Spec == Init /\ [][Next]_vars

\* ----------------------------------------------- the selection policy
\* The keys a bucket may hold for a session: two containers, manifests of
\* equal and of different length, and a segment.
ObjectKeys ==
    {<<"a", ".mp4">>, <<"b", ".mp4">>,
     <<"a", ".m3u8">>, <<"b", ".m3u8">>, <<"a", "/", "b", ".m3u8">>,
     <<"a", ".ts">>}

\* Every listing of up to MaxKeys distinct keys, in every order.
KeyLists ==
    UNION {{f \in [1..n -> ObjectKeys] : \A i, j \in 1..n : i # j => f[i] # f[j]} :
           n \in 0..MaxKeys}

StoreListings == {S3Error} \cup {S3Listing(keys) : keys \in KeyLists}

\* The selection policy alone: resolve calls on a bucket that answers with
\* any of the listings.
ResolveInit ==
    /\ InitService
    /\ \E listing \in StoreListings : bucket = [sid \in SessionIds |-> listing]

ResolveNext == \E p \in Procs : GetRecordingPlaybackUrl(p)

ResolveSpec == ResolveInit /\ [][ResolveNext]_vars

\* The recording life cycle together with playback resolution, on a bucket
\* that lists the container a stop reports ahead of another one under one
\* session id and nothing under every other.
PlaybackBucket ==
    [sid \in SessionIds |->
        IF sid = "s1" THEN S3Listing(<< <<"a", ".mp4">>, <<"b", ".mp4">> >>)
        ELSE S3Listing(<<>>)]

PlaybackInit == InitService /\ bucket = PlaybackBucket

PlaybackNext ==
    \/ \E p \in Procs : StartRecording(p)
    \/ \E p \in Procs : StopCall(p)
    \/ \E p \in Procs : StopGet(p)
    \/ \E p \in Procs : StopSave(p)
    \/ \E p \in Procs : FailGet(p)
    \/ \E p \in Procs : FailSave(p)
    \/ \E p \in Procs : GetRecordingPlaybackUrl(p)

PlaybackSpec == PlaybackInit /\ [][PlaybackNext]_vars

\* ------------------------------------------- upstream calls in flight
\* requests.post / requests.get are called without a timeout argument
\* (agora_utils.py 185, 253, 289, 317): a handler that has posted an
\* upstream call waits until the service answers.  Here every call is a
\* step of its own and the answer is a step of the service.
NoAcquire == [ok |-> FALSE, resourceId |-> None]
NoStart == [ok |-> FALSE, sid |-> None]
NoStop == [ok |-> FALSE, serverResponse |-> "absent", fileList |-> <<>>]

\* start_recording 117-135: validation, then the acquire call is posted.
StartPosted(p) ==
    /\ pc[p] = "idle"
    /\ ncalls < MaxCalls
    /\ Len(recordings) < MaxRecordings
    /\ ncalls' = ncalls + 1
    /\ \E channel \in Channels, uid \in Uids, mode \in Modes :
        LET step == StartStep(channel, uid, NoAcquire, NoStart, recordings, credentials)
        IN  IF AcquireCalled(step)
            THEN /\ pc' = [pc EXCEPT ![p] = "acquire_wait"]
                 /\ loc' = [loc EXCEPT ![p] =
                               [op |-> "start", channel |-> channel, uid |-> uid,
                                mode |-> mode, acq |-> NoAcquire]]
                 /\ UNCHANGED last
            ELSE /\ last' = StartDone(channel, uid, NoAcquire, NoStart, step)
                 /\ UNCHANGED <<pc, loc>>
    /\ UNCHANGED <<recordings, clock, credentials, bucket>>

\* start_recording 135-151: the acquire answer arrives; the handler checks
\* the resource id, mints the token and posts the start call.
AcquireAnswered(p) ==
    /\ pc[p] = "acquire_wait"
    /\ \E acq \in AcquireReplies :
        LET step == StartStep(loc[p].channel, loc[p].uid, acq, NoStart,
                              recordings, credentials)
        IN  IF StartCalled(step)
            THEN /\ pc' = [pc EXCEPT ![p] = "start_wait"]
                 /\ loc' = [loc EXCEPT ![p].acq = acq]
                 /\ UNCHANGED last
            ELSE /\ last' = StartDone(loc[p].channel, loc[p].uid, acq, NoStart, step)
                 /\ pc' = [pc EXCEPT ![p] = "idle"]
                 /\ loc' = [loc EXCEPT ![p] = IdleLoc]
    /\ UNCHANGED <<recordings, clock, credentials, bucket, ncalls>>

\* start_recording 149-182: the start answer arrives; the row is inserted.
StartAnswered(p) ==
    /\ pc[p] = "start_wait"
    /\ \E st \in StartReplies, now \in Now :
        LET step == StartStep(loc[p].channel, loc[p].uid, loc[p].acq, st,
                              recordings, credentials)
        IN  /\ (step # "created" => now = clock)
            /\ clock' = now
            /\ recordings' =
                  IF step = "created"
                  THEN Append(recordings,
                              NewRecording(Len(recordings) + 1, loc[p].acq.resourceId,
                                           st.sid, loc[p].channel, loc[p].uid,
                                           loc[p].mode, now))
                  ELSE recordings
            /\ last' = StartDone(loc[p].channel, loc[p].uid, loc[p].acq, st, step)
    /\ pc' = [pc EXCEPT ![p] = "idle"]
    /\ loc' = [loc EXCEPT ![p] = IdleLoc]
    /\ UNCHANGED <<credentials, bucket, ncalls>>

\* stop_recording 214-227: validation, then the stop call is posted.
StopPosted(p) ==
    /\ pc[p] = "idle"
    /\ ncalls < MaxCalls
    /\ ncalls' = ncalls + 1
    /\ \E resource_id \in ResourceIds \cup {""}, sid \in SessionIds \cup {""},
          channel \in Channels, uid \in {"", "999999"} :
        IF StopRequestValid(resource_id, sid, channel, uid)
        THEN /\ loc' = [loc EXCEPT ![p] =
                          [op |-> "stop", resource_id |-> resource_id, sid |-> sid,
                           called |-> TRUE, reply |-> NoStop,
                           at_call |-> StatusOf(recordings, resource_id, sid)]]
             /\ pc' = [pc EXCEPT ![p] = "stop_wait"]
             /\ UNCHANGED last
        ELSE /\ last' = [op |-> "stop", step |-> "invalid", status |-> 400,
                         resource_id |-> None, sid |-> None,
                         called |-> FALSE, reply |-> NoStop, at_call |-> "absent",
                         rows_before |-> recordings]
             /\ UNCHANGED <<pc, loc>>
    /\ UNCHANGED <<recordings, clock, credentials, bucket>>

\* stop_recording 227-229 and 255: the stop answer arrives: a 200 leads to
\* the success path, anything else raises into the failure path.
StopAnswered(p) ==
    /\ pc[p] = "stop_wait"
    /\ \E reply \in StopReplies :
        /\ loc' = [loc EXCEPT ![p].reply = reply]
        /\ pc' = [pc EXCEPT ![p] = IF reply.ok THEN "stop_get" ELSE "fail_get"]
    /\ UNCHANGED <<recordings, clock, credentials, bucket, last, ncalls>>

\* query_recording 290-302: validation, then the query call is posted.
QueryPosted(p) ==
    /\ pc[p] = "idle"
    /\ ncalls < MaxCalls
    /\ ncalls' = ncalls + 1
    /\ \E resource_id \in {"", "r1"}, sid \in {"", "s1"} :
        IF QueryStep(resource_id, sid, FALSE) = "invalid"
        THEN /\ last' = [op |-> "query", step |-> "invalid",
                         status |-> QueryStatus("invalid"), rows_before |-> recordings]
             /\ UNCHANGED <<pc, loc>>
        ELSE /\ pc' = [pc EXCEPT ![p] = "query_wait"]
             /\ loc' = [loc EXCEPT ![p] =
                           [op |-> "query", resource_id |-> resource_id, sid |-> sid]]
             /\ UNCHANGED last
    /\ UNCHANGED <<recordings, clock, credentials, bucket>>

\* query_recording 302-312: the query answer arrives.
QueryAnswered(p) ==
    /\ pc[p] = "query_wait"
    /\ \E ok \in BOOLEAN :
        LET step == QueryStep(loc[p].resource_id, loc[p].sid, ok)
        IN  last' = [op |-> "query", step |-> step, status |-> QueryStatus(step),
                     rows_before |-> recordings]
    /\ pc' = [pc EXCEPT ![p] = "idle"]
    /\ loc' = [loc EXCEPT ![p] = IdleLoc]
    /\ UNCHANGED <<recordings, clock, credentials, bucket, ncalls>>

UpstreamNext ==
    \/ \E p \in Procs : StartPosted(p)
    \/ \E p \in Procs : AcquireAnswered(p)
    \/ \E p \in Procs : StartAnswered(p)
    \/ \E p \in Procs : StopPosted(p)
    \/ \E p \in Procs : StopAnswered(p)
    \/ \E p \in Procs : StopGet(p)
    \/ \E p \in Procs : StopSave(p)
    \/ \E p \in Procs : FailGet(p)
    \/ \E p \in Procs : FailSave(p)
    \/ \E p \in Procs : QueryPosted(p)
    \/ \E p \in Procs : QueryAnswered(p)

\* A worker that can take a step of its own takes it; the service owes no
\* answer, and the code arms no timer.
UpstreamSpec ==
    /\ Init
    /\ [][UpstreamNext]_vars
    /\ \A p \in Procs :
          /\ WF_vars(StopGet(p))
          /\ WF_vars(StopSave(p))
          /\ WF_vars(FailGet(p))
          /\ WF_vars(FailSave(p))

\* ---------------------------------------------------------------- claims
Terminal == {"stopped", "failed"}

\* The table changes only in the step that completes a request, and that
\* step records the table it found in last.rows_before: a predicate over
\* last and recordings relates the request's inputs to its effect.
IsStart == last.op = "start"
IsStop == last.op = "stop"

\* An id the upstream returned to the last start is already in the table.
StartIdsPresent ==
    \/ \E i \in Rows(last.rows_before) : last.rows_before[i].resource_id = last.resource_id
    \/ \E i \in Rows(last.rows_before) : last.rows_before[i].sid = last.sid

\* The row the last stop request names, in the table as it is now.
StopRow == recordings[Lookup(recordings, last.resource_id, last.sid)]

\* C1 as stated: whenever a start with non-empty channel and uid saw both
\* upstream acquire and upstream start succeed (each returning its id),
\* exactly one row was added, in state recording, with non-empty resource_id
\* and sid.
C1_StartSuccessCreatesSession ==
    (IsStart /\ last.acquire = "ok" /\ last.start = "ok" /\ ~Falsy(last.sid)) =>
        /\ Len(recordings) = Len(last.rows_before) + 1
        /\ recordings[Len(recordings)].status = "recording"
        /\ ~Falsy(recordings[Len(recordings)].resource_id)
        /\ ~Falsy(recordings[Len(recordings)].sid)

\* C1 amended: when acquire returned a non-empty resource id, the token was
\* minted, start returned a non-null sid and neither id is stored yet,
\* the start answers 200 and adds exactly one row, in state recording, that
\* carries the returned ids: a non-empty resource_id and a non-null sid.
C1_StartSuccessCreatesSessionAmended ==
    (IsStart /\ last.acquire = "ok" /\ last.start = "ok"
       /\ last.sid # None /\ ~StartIdsPresent) =>
        /\ last.status = 200
        /\ Len(recordings) = Len(last.rows_before) + 1
        /\ SubSeq(recordings, 1, Len(last.rows_before)) = last.rows_before
        /\ recordings[Len(recordings)].status = "recording"
        /\ recordings[Len(recordings)].resource_id = last.resource_id
        /\ ~Falsy(recordings[Len(recordings)].resource_id)
        /\ recordings[Len(recordings)].sid = last.sid
        /\ recordings[Len(recordings)].sid # None

\* A second session was started while another one is stored.
C1_Witness ==
    /\ IsStart /\ last.step = "created"
    /\ Len(last.rows_before) = 1
    /\ Len(recordings) = 2
    /\ recordings[2].status = "recording"

\* C2: a start in which an upstream step failed (acquire failed or returned
\* no resource id, the token could not be minted, or start failed) leaves
\* the table as it was and answers with an error; and a list request shows
\* only rows of the table, which it leaves alone.
C2_FailedStartCreatesNothing ==
    /\ (IsStart /\ (\/ last.acquire = "failed"
                    \/ (last.acquire = "ok" /\ Falsy(last.resource_id))
                    \/ last.token = "failed"
                    \/ last.start = "failed")) =>
           /\ recordings = last.rows_before
           /\ last.status = 500
    /\ (last.op = "list") =>
           /\ recordings = last.rows_before
           /\ \A k \in DOMAIN last.data : last.data[k] \in Rows(recordings)

\* A start failed upstream while a session is stored.
C2_Witness ==
    /\ IsStart /\ last.start = "failed" /\ last.status = 500
    /\ Len(recordings) = 1

\* C3 as stated: a stop on a session that was already stopped or failed
\* when the call was made performs no upstream stop call and leaves the
\* table as it was.
C3_StopOnTerminalIsIdempotent ==
    (IsStop /\ last.at_call \in Terminal) =>
        /\ ~last.called
        /\ recordings = last.rows_before

\* C4 as stated: of two stop calls in flight for the same stored session at
\* most one has invoked the upstream stop (the other short-circuits).
C4_ConcurrentStopsCallUpstreamOnce ==
    \A p, q \in Procs :
        (/\ p # q
         /\ loc[p].op = "stop" /\ loc[q].op = "stop"
         /\ loc[p].resource_id = loc[q].resource_id /\ loc[p].sid = loc[q].sid
         /\ Lookup(recordings, loc[p].resource_id, loc[p].sid) # 0)
        => ~(loc[p].called /\ loc[q].called)

\* C5 as stated: a request made once a row is stopped or failed does not
\* change that row's status, stopped_at or s3_file_list (a stop counts when
\* the row it names was already stopped or failed as the call was made).
C5_TerminalRowsNeverChange ==
    (last.op # "none" /\ (IsStop => last.at_call \in Terminal)) =>
        \A i \in Rows(last.rows_before) :
            last.rows_before[i].status \in Terminal =>
                /\ recordings[i].status = last.rows_before[i].status
                /\ recordings[i].stopped_at = last.rows_before[i].stopped_at
                /\ recordings[i].s3_file_list = last.rows_before[i].s3_file_list

\* C6: in every reachable state, a row's stopped_at is set if and only if
\* its status is stopped or failed.
C6_StoppedAtIffTerminal ==
    \A i \in Rows(recordings) :
        (recordings[i].stopped_at # NullTime) <=> (recordings[i].status \in Terminal)

\* A failed row (with its stopped_at) beside a row still recording.
C6_Witness ==
    \E i, j \in Rows(recordings) :
        /\ recordings[i].status = "failed" /\ recordings[i].stopped_at # NullTime
        /\ recordings[j].status = "recording" /\ recordings[j].stopped_at = NullTime

\* C7 as stated: a stop called on a recording session whose upstream stop
\* succeeded leaves the row stopped, with stopped_at set and the stored
\* file-key list equal to the list of that response.
C7_SuccessfulStopPersistsStopped ==
    (IsStop /\ last.called /\ last.reply.ok /\ last.at_call = "recording") =>
        /\ StopRow.status = "stopped"
        /\ StopRow.stopped_at # NullTime
        /\ StoredFileKeys(StopRow.s3_file_list) = last.reply.fileList

\* C8: a stop called on a recording session whose upstream stop failed
\* leaves the row failed with stopped_at set and answers with an error; and
\* no request brings a row that left recording back to recording.
C8_FailedStopPersistsFailed ==
    /\ (IsStop /\ last.called /\ ~last.reply.ok /\ last.at_call = "recording") =>
           /\ StopRow.status = "failed"
           /\ StopRow.stopped_at # NullTime
           /\ last.status = 500
    /\ (last.op # "none") =>
           \A i \in Rows(last.rows_before) :
               last.rows_before[i].status # "recording" => recordings[i].status # "recording"

\* The upstream refused to stop a session that was recording.
C8_Witness ==
    /\ IsStop /\ last.called /\ ~last.reply.ok /\ last.at_call = "recording"
    /\ last.step = "failed"
    /\ StopRow.status = "failed"

\* C9 as stated: a stop naming a session with no row never answers with a
\* success.
C9_StopUnknownNeverSucceeds ==
    (IsStop /\ last.called
       /\ Lookup(last.rows_before, last.resource_id, last.sid) = 0) =>
        last.status >= 400

\* C9 amended: a stop naming a session with no row still invokes the
\* upstream stop; it answers 200 when that call succeeded and 500 when it
\* failed, and in both cases leaves the table as it was.
C9_StopUnknownFollowsUpstream ==
    (IsStop /\ last.step # "invalid"
       /\ Lookup(last.rows_before, last.resource_id, last.sid) = 0) =>
        /\ last.called
        /\ last.status = (IF last.reply.ok THEN 200 ELSE 500)
        /\ recordings = last.rows_before

\* A stop of an unknown session was answered with a success while a
\* session is stored.
C9_Witness ==
    /\ IsStop /\ last.step = "unknown_stopped" /\ last.status = 200
    /\ Lookup(recordings, last.resource_id, last.sid) = 0
    /\ Len(recordings) = 1

\* C10: no two rows share a resource_id and no two share a sid; a start to
\* which the upstream returned an id already stored adds no row and fails.
C10_ExternalIdsUnique ==
    /\ \A i, j \in Rows(recordings) :
           i # j => /\ recordings[i].resource_id # recordings[j].resource_id
                    /\ recordings[i].sid # recordings[j].sid
    /\ (IsStart /\ last.start = "ok" /\ StartIdsPresent) =>
           /\ recordings = last.rows_before
           /\ last.status = 500

\* A start was refused because its sid is the sid of a stored session.
C10_Witness ==
    /\ IsStart /\ last.start = "ok" /\ last.status = 500
    /\ \E i \in Rows(recordings) :
           recordings[i].sid = last.sid /\ recordings[i].resource_id # last.resource_id

\* C11 as stated: a start whose channel is empty or whose uid is missing or
\* no integer string makes no upstream acquire and no upstream start call,
\* and adds no row.
C11_InvalidStartCallsNoUpstream ==
    (IsStart /\ (last.channel = <<>> \/ ~IsIntString(last.uid))) =>
        /\ last.acquire = "not_called"
        /\ last.start = "not_called"
        /\ recordings = last.rows_before

\* ------------------------------------------------------ claims on resolve
IsResolve == last.op = "resolve"

\* The keys of the last resolve's listing that end in `suffix`.
ListedKeys(suffix) ==
    {last.listing.contents[i] : i \in {j \in DOMAIN last.listing.contents :
                                          EndsWith(last.listing.contents[j], suffix)}}

\* The place of the first listed key ending in `suffix`.
FirstListed(suffix) ==
    last.listing.contents[CHOOSE i \in DOMAIN last.listing.contents :
        /\ EndsWith(last.listing.contents[i], suffix)
        /\ \A j \in 1..(i - 1) : ~EndsWith(last.listing.contents[j], suffix)]

\* Strict lexicographic order of keys, token by token.
KeyLess(a, b) ==
    \E i \in 1..(Len(a) + 1) :
        /\ \A j \in 1..(i - 1) : j <= Len(b) /\ a[j] = b[j]
        /\ IF i = Len(a) + 1 THEN Len(b) >= i
           ELSE i <= Len(b) /\ TokenRank(a[i]) < TokenRank(b[i])

LexMin(S) == CHOOSE k \in S : \A o \in S : o = k \/ KeyLess(k, o)

\* The store listed its keys in lexicographic order.
ListedInOrder ==
    \A i, j \in DOMAIN last.listing.contents :
        i < j => KeyLess(last.listing.contents[i], last.listing.contents[j])

\* C12 as stated: whenever the listing holds an .mp4 key, resolve returns a
\* link of kind mp4, and the key it signs is the lexicographically smallest
\* .mp4 key, whatever the order of the listing.
C12_SelectsSmallestMp4 ==
    (IsResolve /\ ListedKeys(".mp4") # {}) =>
        /\ last.result.found
        /\ last.result.type = "mp4"
        /\ last.sign_ok => last.result.url.key = LexMin(ListedKeys(".mp4"))

\* C12 amended: whenever the listing holds an .mp4 key, resolve returns a
\* link of kind mp4 in preference to any manifest, and the key it signs is
\* the first .mp4 key of the listing; that is the lexicographically
\* smallest .mp4 key when the store lists its keys in lexicographic order.
C12_SelectsFirstListedMp4 ==
    (IsResolve /\ ListedKeys(".mp4") # {}) =>
        /\ last.result.found
        /\ last.result.type = "mp4"
        /\ last.result.mime_type = "video/mp4"
        /\ last.sign_ok =>
              /\ last.result.url.key = FirstListed(".mp4")
              /\ ListedInOrder => last.result.url.key = LexMin(ListedKeys(".mp4"))

\* A listing with a manifest ahead of two containers, the larger first.
C12_Witness ==
    /\ IsResolve /\ last.sign_ok
    /\ last.listing.contents = << <<"a", ".m3u8">>, <<"b", ".mp4">>, <<"a", ".mp4">> >>
    /\ last.result.url.key = <<"b", ".mp4">>

\* The listed keys ending in `suffix` that are no longer than any other.
ShortestListed(suffix) ==
    {k \in ListedKeys(suffix) : \A o \in ListedKeys(suffix) : StrLen(k) <= StrLen(o)}

\* The first key of the listing that is among `keys`.
FirstListedAmong(keys) ==
    last.listing.contents[CHOOSE i \in DOMAIN last.listing.contents :
        /\ last.listing.contents[i] \in keys
        /\ \A j \in 1..(i - 1) : last.listing.contents[j] \notin keys]

\* C13 as stated: whenever the listing holds no .mp4 key and some .m3u8
\* key, resolve returns a link of kind hls for an .m3u8 key of minimum
\* length, the lexicographically smallest of them, whatever the order of
\* the listing.
C13_SelectsShortestManifest ==
    (IsResolve /\ ListedKeys(".mp4") = {} /\ ListedKeys(".m3u8") # {}) =>
        /\ last.result.found
        /\ last.result.type = "hls"
        /\ last.sign_ok => last.result.url.key = LexMin(ShortestListed(".m3u8"))

\* C13 amended: whenever the listing holds no .mp4 key and some .m3u8 key,
\* resolve returns a link of kind hls for an .m3u8 key of minimum length:
\* the first of them in the listing, which is the lexicographically
\* smallest of them when the store lists its keys in lexicographic order.
C13_SelectsFirstShortestManifest ==
    (IsResolve /\ ListedKeys(".mp4") = {} /\ ListedKeys(".m3u8") # {}) =>
        /\ last.result.found
        /\ last.result.type = "hls"
        /\ last.result.mime_type = "application/x-mpegURL"
        /\ last.sign_ok =>
              /\ last.result.url.key \in ShortestListed(".m3u8")
              /\ last.result.url.key = FirstListedAmong(ShortestListed(".m3u8"))
              /\ ListedInOrder => last.result.url.key = LexMin(ShortestListed(".m3u8"))

\* A nested manifest listed ahead of two manifests of equal length.
C13_Witness ==
    /\ IsResolve /\ last.sign_ok
    /\ last.listing.contents =
          << <<"a", "/", "b", ".m3u8">>, <<"b", ".m3u8">>, <<"a", ".m3u8">> >>
    /\ last.result.url.key = <<"b", ".m3u8">>

\* C14: resolve returns None exactly when the keys the store lists for the
\* session hold neither an .mp4 nor an .m3u8 key (an empty or failed
\* listing included); when such a key is listed it returns a link.
C14_AbsentIffNoPlayableKey ==
    IsResolve =>
        (last.result = NoPlayback
           <=> (ListedKeys(".mp4") = {} /\ ListedKeys(".m3u8") = {}))

\* The store lists nothing but a segment, and resolve returns None.
C14_Witness ==
    /\ IsResolve
    /\ last.listing.contents = << <<"a", ".ts">> >>
    /\ last.result = NoPlayback

\* The rows of the table that carry the sid the last resolve was given.
ResolveRows == {i \in Rows(recordings) : recordings[i].sid = last.sid}

\* C15 as stated: resolve yields a link only for a session that has a row
\* and whose row is stopped (an unknown session is NotFound, a session in
\* another state InvalidState).
C15_ResolveOnlyStopped ==
    (IsResolve /\ last.result.found) =>
        \E i \in ResolveRows : recordings[i].status = "stopped"

\* C15 amended: resolve reads no session: for a session id without a row
\* and for a row in any state it never fails with NotFound or InvalidState,
\* returns a link exactly when the store lists an .mp4 or .m3u8 key under
\* that id, and leaves the table as it was.
C15_ResolveIgnoresSession ==
    IsResolve =>
        /\ last.result.found
             <=> (ListedKeys(".mp4") # {} \/ ListedKeys(".m3u8") # {})
        /\ recordings = last.rows_before

\* A link was returned for a session that is still recording.
C15_Witness ==
    /\ IsResolve /\ last.result.found
    /\ \E i \in ResolveRows : recordings[i].status = "recording"

\* The .mp4 keys of the stored file list of row i.
StoredMp4Keys(i) ==
    {StoredFileKeys(recordings[i].s3_file_list)[k] :
        k \in {j \in DOMAIN StoredFileKeys(recordings[i].s3_file_list) :
                  EndsWith(StoredFileKeys(recordings[i].s3_file_list)[j], ".mp4")}}

\* The last request resolved a session that was started and then stopped
\* with a reported file list holding an .mp4 key.
ResolvedStoppedWithMp4 ==
    /\ IsResolve
    /\ \E i \in ResolveRows :
           recordings[i].status = "stopped" /\ StoredMp4Keys(i) # {}

\* C16 as stated: after a start and a stop whose reply reported a file
\* list with an .mp4 key, resolve returns a link of kind mp4 for a reported
\* .mp4 key, taken from the stored list.
C16_ResolveUsesStoredList ==
    ResolvedStoppedWithMp4 =>
        /\ last.result.found
        /\ last.result.type = "mp4"
        /\ last.sign_ok =>
              \E i \in ResolveRows : last.result.url.key \in StoredMp4Keys(i)

\* C16 amended: after a start and a stop whose reply reported a file list
\* with an .mp4 key, resolve lists the store again and answers from that
\* listing alone: a link of kind mp4 for the first .mp4 key listed (the
\* reported key when the store lists it first), and None when the store
\* lists no .mp4 and no .m3u8 key; the stored list is not read.
C16_ResolveRelistsStore ==
    ResolvedStoppedWithMp4 =>
        /\ ListedKeys(".mp4") # {} =>
              /\ last.result.found
              /\ last.result.type = "mp4"
              /\ last.sign_ok => last.result.url.key = FirstListed(".mp4")
        /\ (ListedKeys(".mp4") = {} /\ ListedKeys(".m3u8") = {}) =>
              last.result = NoPlayback
        /\ recordings = last.rows_before

\* Start, stop with a reported container, resolve: the store lists that
\* container first and the link is for it.
C16_Witness ==
    /\ ResolvedStoppedWithMp4
    /\ last.result.found /\ last.sign_ok
    /\ last.result.type = "mp4"
    /\ \E i \in ResolveRows : last.result.url.key \in StoredMp4Keys(i)

\* ------------------------------------------------------- claims on list
IsListed == last.op = "list" /\ last.step = "listed"

\* name contains part, character for character.
Contains(name, part) ==
    \E off \in 0..(Len(name) - Len(part)) :
        \A k \in 1..Len(part) : name[off + k] = part[k]

\* name contains part when the case of letters is ignored.
ContainsIgnoringCase(name, part) ==
    Contains([k \in DOMAIN name |-> Lower(name[k])], [k \in DOMAIN part |-> Lower(part[k])])

\* The rows a list response returns are distinct, at most `limit`, newest
\* first, and complete: a stored row that matches and is newer than a
\* returned one is returned too.
ListShape(Matches(_)) ==
    /\ Len(last.data) <= last.limit
    /\ \A k, l \in DOMAIN last.data : k # l => last.data[k] # last.data[l]
    /\ \A k \in DOMAIN last.data : Matches(last.data[k])
    /\ \A k, l \in DOMAIN last.data :
           k < l => recordings[last.data[k]].started_at >= recordings[last.data[l]].started_at
    /\ \A i \in Rows(recordings), k \in DOMAIN last.data :
           (Matches(i) /\ recordings[i].started_at > recordings[last.data[k]].started_at)
               => \E l \in DOMAIN last.data : last.data[l] = i

\* C17 as stated: a list response holds at most `limit` rows, each with a
\* channel name that contains the filter string when one is given, newest
\* first, and omits no matching row newer than a returned one.
C17_ListFilteredNewestFirst ==
    IsListed =>
        ListShape(LAMBDA i : last.channel_filter = <<>>
                             \/ Contains(recordings[i].channel_name, last.channel_filter))

\* C17 amended: as stated, with the filter matched case-insensitively: the
\* channel name of every returned row contains the filter string when the
\* case of letters is ignored.
C17_ListFilteredIgnoringCase ==
    IsListed =>
        ListShape(LAMBDA i : last.channel_filter = <<>>
                             \/ ContainsIgnoringCase(recordings[i].channel_name,
                                                     last.channel_filter))

\* Two rows started at different times, a filter in another case and
\* limit 1: the newer row alone is returned.
C17_Witness ==
    /\ IsListed
    /\ last.channel_filter = <<"a", "B">> /\ last.limit = 1
    /\ Len(recordings) = 2 /\ Len(last.data) = 1
    /\ \E i \in Rows(recordings) :
           recordings[i].started_at < recordings[last.data[1]].started_at

\* C18: no step of any operation (start, stop on either path, query, list,
\* resolve, token issuance) removes a row or changes a row's resource_id,
\* sid, channel_name, recording_uid, mode or started_at; a stop changes
\* nothing of a row but status, stopped_at and s3_file_list.
C18_CreationFieldsImmutable ==
    [][\A i \in Rows(recordings) :
          /\ i \in Rows(recordings')
          /\ recordings'[i].resource_id = recordings[i].resource_id
          /\ recordings'[i].sid = recordings[i].sid
          /\ recordings'[i].channel_name = recordings[i].channel_name
          /\ recordings'[i].recording_uid = recordings[i].recording_uid
          /\ recordings'[i].mode = recordings[i].mode
          /\ recordings'[i].started_at = recordings[i].started_at
          /\ recordings'[i].id = recordings[i].id
          /\ recordings'[i].s3_bucket = recordings[i].s3_bucket]_vars

\* A stop has rewritten a row, later than the row was created: the row is
\* stopped and holds the reported file list.
C18_Witness ==
    /\ IsStop /\ last.step = "stopped"
    /\ StopRow.status = "stopped"
    /\ StopRow.s3_file_list.isJson
    /\ StopRow.started_at < StopRow.stopped_at

\* C19 as stated: every start, stop and query a worker has begun returns
\* to its caller, also when the upstream service never answers (a timeout
\* ends the wait, and a stop that timed out leaves its row failed).
C19_EveryCallReturns ==
    \A p \in Procs : (pc[p] # "idle") ~> (pc[p] = "idle")

\* C20 as stated: a row becomes failed only in a stop whose upstream stop
\* call failed; a stop whose upstream call succeeded never leaves its row
\* failed, and no other operation sets failed.
C20_FailedOnlyFromUpstreamFailure ==
    (last.op # "none") =>
        \A i \in Rows(last.rows_before) :
            (last.rows_before[i].status # "failed" /\ recordings[i].status = "failed") =>
                (IsStop /\ last.called /\ ~last.reply.ok)

\* C21 as stated: whenever resolve returns a link rather than None, the
\* link's url is a signed URL for the selected key; when the object store
\* fails to sign the key, resolve returns no link with a null url.
C21_LinkUrlIsSigned ==
    (IsResolve /\ last.result.found) =>
        /\ last.result.url.signed
        /\ last.result.url.key \in (ListedKeys(".mp4") \cup ListedKeys(".m3u8"))

====
